---- MODULE Spec2Model ----
(***************************************************************************)
(* Model of the job lifecycle and progress broadcast of the primitive web  *)
(* backend (src/web/backend/main.go): the jobs registry, the HTTP          *)
(* handlers, the processImage goroutines and the websocket hub.            *)
(*                                                                         *)
(* The backend takes no lock anywhere, so every goroutine is modelled as a *)
(* task with a program counter and every action performs at most one       *)
(* access to shared memory (a field of a Job, the jobs map, wsClients, a   *)
(* connection) together with the goroutine-local computation around it.    *)
(*                                                                         *)
(* Spec is the whole backend.  TLC explores slices of it exhaustively:     *)
(* SpecJobs (registry, handlers and runs, no observer connected), SpecHub  *)
(* (one uploaded job, its runs, the hub and one observer), SpecOneRun (one *)
(* run, short or long, and all observers) and SpecTwoJobs (two jobs, each  *)
(* processed once, and observers that stay).                               *)
(***************************************************************************)
EXTENDS Integers, Sequences, FiniteSets, TLC

\* ---------------------------------------------------------------- bounds
MaxTime == 2        \* clock seconds the model runs through
MaxJobs == 2        \* Job objects ever allocated (successful uploads)
MaxProc == 2        \* accepted process requests (handler + run each)
MaxConns == 2       \* websocket connections ever upgraded
MaxHubConns == 1    \* of these, the connections upgraded in the one-job slice

\* ---------------------------------------------------------------- inputs
\* fmt.Sprintf("job_%d", time.Now().Unix()): an id is the clock second; id 0
\* is named by requests but never created (the clock starts at 1).
JobIDs == 1..MaxTime
ReqIDs == 0..MaxTime
Tasks == 1..MaxProc
Conns == 1..MaxConns
\* uploaded bytes: an image, bytes image.Decode rejects, and an image whose
\* canvas jpeg.Encode rejects
Files == {"png", "junk", "odd"}
\* {count, mode, alpha} bodies of POST /api/process
Params ==
  { [count |-> 1,  mode |-> 1, alpha |-> 128],
    [count |-> 2,  mode |-> 1, alpha |-> 128],
    [count |-> -1, mode |-> 1, alpha |-> 128],
    [count |-> 1,  mode |-> 9, alpha |-> 256] }

VARIABLES
  now,        \* time.Now().Unix() as last read
  jobs,       \* var jobs map[string]*Job : id -> pointer (0 = no entry)
  heap,       \* the Job objects, by pointer
  tasks,      \* handleProcess / processImage goroutines
  wsClients,  \* var wsClients map[*websocket.Conn]bool
  conns,      \* the websocket connections
  published,  \* frames handed to broadcastProgress, each with the run that sent it
  received,   \* frames written to each connection, each with the run that sent it
  crashed,    \* the process died of an unrecovered panic
  clients     \* the state of the web client behind each connection

vars == <<now, jobs, heap, tasks, wsClients, conns, published, received, crashed,
          clients>>

\* ---------------------------------------------------------------- data
NoBytes == <<>>
NoFrame == [none |-> TRUE]

\* the Job literal of handleUpload without its InputData field
NewJobNoInput(id, data) ==
  [ID |-> id, Status |-> "uploaded", Progress |-> 0, Total |-> 0, Score |-> 0,
   Error |-> "", ResultData |-> NoBytes, InputData |-> NoBytes]

\* type Job struct, zero values for the fields the literal leaves out
NewJob(id, data) ==
  [ID |-> id, Status |-> "uploaded", Progress |-> 0, Total |-> 0, Score |-> 0,
   Error |-> "", ResultData |-> NoBytes, InputData |-> data]

\* type ProgressUpdate struct
ProgressUpdate(id, progress, total, score, completed, err, img) ==
  [jobId |-> id, progress |-> progress, total |-> total, score |-> score,
   completed |-> completed, error |-> err, imageData |-> img]

\* a frame as the hub handles it, with the run whose call carries it
Sent(r, update) == [run |-> r, frame |-> update]

\* image.Decode succeeds on image bytes only
Decodable(data) == data \in {"png", "odd"}

\* jpeg.Encode of the canvas of src after n shapes at quality q: the encoded
\* bytes, or none with an error
Encodable(src) == src = "png"
JpegEncode(src, n, q) == IF Encodable(src) THEN <<"jpeg", q, src, n>> ELSE NoBytes

\* base64.StdEncoding.EncodeToString: empty for empty input
Base64(bytes) == IF bytes = NoBytes THEN "" ELSE <<"b64", bytes>>

\* primitive.NewModel(...).Score of the bare background
InitialScore == 2

\* model.Step never worsens the score
StepScore(s) == IF s > 1 THEN s - 1 ELSE s

IdleTask ==
  [pc |-> "idle", jobID |-> 0, job |-> 0, count |-> 0, mode |-> 0, alpha |-> 0,
   i |-> 0, score |-> 0, update |-> NoFrame, seen |-> {}, todo |-> {},
   cur |-> 0, ret |-> "idle", deferred |-> FALSE, initialImageData |-> ""]

\* a goroutine that has returned: its locals are gone
DoneTask == [IdleTask EXCEPT !.pc = "done"]

NoConn == [state |-> "unborn", peer |-> "none", handler |-> FALSE, isWriting |-> FALSE]

\* the state of App on mount (App.tsx lines 32-36), with the job of its last
\* startProcessing call, the answer of /api/process it still awaits and the
\* frames its onmessage has handled
NoClient ==
  [appState |-> "initial", progress |-> NoFrame, resultUrl |-> <<>>, error |-> "",
   jobId |-> 0, awaiting |-> NoFrame, handled |-> {}]

Init ==
  /\ now = 1
  /\ jobs = [id \in JobIDs |-> 0]
  /\ heap = <<>>
  /\ tasks = [r \in Tasks |-> IdleTask]
  /\ wsClients = {}
  /\ conns = [c \in Conns |-> NoConn]
  /\ published = {}
  /\ received = [c \in Conns |-> {}]
  /\ crashed = FALSE
  /\ clients = [c \in Conns |-> NoClient]

Response(op, id, code, body) == [op |-> op, id |-> id, code |-> code, body |-> body]

\* ---------------------------------------------------------------- router
\* the routes main registers on the gin engine (lines 108-122)
Routes ==
  { <<"GET", "/assets">>, <<"GET", "/">>,
    <<"POST", "/api/upload">>, <<"POST", "/api/process">>,
    <<"GET", "/api/status/:jobId">>, <<"GET", "/api/download/:jobId">>,
    <<"GET", "/ws">> }

\* the engine's answer to a request for a path without parameters: the code
\* its handler writes, or gin's 404 when no route matches
RouteResponse(method, path, handled) ==
  IF <<method, path>> \in Routes
  THEN Response(method, path, handled, "")
  ELSE Response(method, path, 404, "404 page not found")

\* a request that matches no route: gin answers 404 and no handler runs
handleNoRoute ==
  /\ ~crashed
  /\ UNCHANGED vars

\* ---------------------------------------------------------------- upload
\* handleUpload, request without a "file" field: 400, nothing is stored
handleUploadNoFile ==
  /\ ~crashed
  /\ UNCHANGED vars

\* handleUpload, file whose body cannot be read: 500, nothing is stored
handleUploadReadError ==
  /\ ~crashed
  /\ UNCHANGED vars

\* handleUpload with a registry that holds the newest job only
handleUploadEvicts(data, t) ==
  /\ ~crashed
  /\ Len(heap) < MaxJobs
  /\ t >= now
  /\ now' = t
  /\ heap' = Append(heap, NewJob(t, data))
  /\ jobs' = [id \in JobIDs |-> IF id = t THEN Len(heap) + 1 ELSE 0]
  /\ UNCHANGED <<tasks, wsClients, conns, published, received, crashed, clients>>

\* handleUpload with a file, at clock reading t (the clock never runs backwards;
\* only uploads read it): a new Job replaces whatever jobs[jobID] held
handleUpload(data, t) ==
  /\ ~crashed
  /\ Len(heap) < MaxJobs
  /\ t >= now
  /\ now' = t
  /\ heap' = Append(heap, NewJob(t, data))
  /\ jobs' = [jobs EXCEPT ![t] = Len(heap) + 1]
  /\ UNCHANGED <<tasks, wsClients, conns, published, received, crashed, clients>>

\* the answers handleUpload writes: without a file, and with a file at clock
\* reading t
UploadNoFileResponse == Response("upload", 0, 400, "No file uploaded")
UploadResponse(t) == Response("upload", t, 200, [jobId |-> t])

\* jobs is a plain map, written by handleUpload (line 150) and read by every
\* other handler and by processImage (lines 168, 196, 214, 267) in goroutines
\* of their own, without a lock. The insert of an upload at clock reading t at
\* the same time as another request's or run's access: the runtime detects it
\* ("concurrent map read and map write", "concurrent map writes") and ends the
\* process
jobsRace(t) ==
  /\ ~crashed
  /\ Len(heap) < MaxJobs
  /\ t >= now
  /\ crashed' = TRUE
  /\ UNCHANGED <<now, jobs, heap, tasks, wsClients, conns, published, received, clients>>

\* ---------------------------------------------------------------- registry
\* jobs[id] with its "exists" flag: the pointer, or 0
Lookup(id) == IF id \in JobIDs THEN jobs[id] ELSE 0

\* ---------------------------------------------------------------- status
\* handleStatus without its exists test: the nil Job faults the handler
StatusResponseNoExistsTest(id) ==
  IF Lookup(id) = 0
  THEN Response("status", id, 500, "")
  ELSE LET job == heap[Lookup(id)] IN
       Response("status", id, 200,
                [status |-> job.Status, progress |-> job.Progress, total |-> job.Total,
                 score |-> job.Score, error |-> job.Error,
                 completed |-> (job.Status = "completed")])

\* handleStatus with completed set for every terminal status
StatusResponseTerminalIsCompleted(id) ==
  IF Lookup(id) = 0
  THEN Response("status", id, 404, "Job not found")
  ELSE LET job == heap[Lookup(id)] IN
       Response("status", id, 200,
                [status |-> job.Status, progress |-> job.Progress, total |-> job.Total,
                 score |-> job.Score, error |-> job.Error,
                 completed |-> (job.Status \in {"completed", "error"})])

\* the answer handleStatus writes for id in the current state
StatusResponse(id) ==
  IF Lookup(id) = 0
  THEN Response("status", id, 404, "Job not found")
  ELSE LET job == heap[Lookup(id)] IN
       Response("status", id, 200,
                [status |-> job.Status, progress |-> job.Progress, total |-> job.Total,
                 score |-> job.Score, error |-> job.Error,
                 completed |-> (job.Status = "completed")])

handleStatus(id) ==
  /\ ~crashed
  /\ StatusResponse(id).code \in {200, 404, 500}
  /\ UNCHANGED vars

\* ---------------------------------------------------------------- download
\* handleDownload without its status test: whatever bytes are stored are served
DownloadResponseNoStatusTest(id) ==
  IF Lookup(id) = 0
  THEN Response("download", id, 404, "Job not found")
  ELSE LET job == heap[Lookup(id)] IN
       IF Len(job.ResultData) = 0
       THEN Response("download", id, 400, "No result data available")
       ELSE Response("download", id, 200, job.ResultData)

\* the answer handleDownload writes for id in the current state
DownloadResponse(id) ==
  IF Lookup(id) = 0
  THEN Response("download", id, 404, "Job not found")
  ELSE LET job == heap[Lookup(id)] IN
       IF job.Status # "completed"
       THEN Response("download", id, 400, "Job not completed")
       ELSE IF Len(job.ResultData) = 0
       THEN Response("download", id, 400, "No result data available")
       ELSE Response("download", id, 200, job.ResultData)

handleDownload(id) ==
  /\ ~crashed
  /\ DownloadResponse(id).code \in {200, 400, 404}
  /\ UNCHANGED vars

\* ---------------------------------------------------------------- process
\* generateInitialImage: the base64 background preview, or the decode error
generateInitialImage(inputData) ==
  IF Decodable(inputData) /\ Encodable(inputData)
  THEN [err |-> FALSE, image |-> Base64(JpegEncode(inputData, 0, 70))]
  ELSE [err |-> TRUE, image |-> ""]

\* task slots are taken in order
FreeTask(r) ==
  /\ tasks[r].pc = "idle"
  /\ \A q \in Tasks : q < r => tasks[q].pc # "idle"

\* handleProcess, body that does not bind to the request struct
handleProcessBadJSON ==
  /\ ~crashed
  /\ UNCHANGED vars

\* the answer handleProcess writes for a request naming id, from the state it
\* finds: 404, 500, or 200 with the background preview
ProcessResponse(id) ==
  IF Lookup(id) = 0
  THEN Response("process", id, 404, "Job not found")
  ELSE LET initial == generateInitialImage(heap[Lookup(id)].InputData) IN
       IF initial.err
       THEN Response("process", id, 500, "Failed to generate initial image")
       ELSE Response("process", id, 200, initial.image)

\* handleProcess up to job.Status = "processing" (lines 162-182); count, mode
\* and alpha are taken as sent. What becomes of the client that sent the
\* request is said where the request is sent.
handleProcess(r, id, p) ==
  /\ ~crashed
  /\ FreeTask(r)
  /\ IF ProcessResponse(id).code # 200
     THEN UNCHANGED <<heap, tasks>>
     ELSE LET ptr == Lookup(id) IN
          /\ heap' = [heap EXCEPT ![ptr].Status = "processing"]
          /\ tasks' = [tasks EXCEPT ![r] =
                         [IdleTask EXCEPT !.pc = "total", !.jobID = id, !.job = ptr,
                                          !.count = p.count, !.mode = p.mode,
                                          !.alpha = p.alpha,
                                          !.initialImageData = ProcessResponse(id).body]]
  /\ UNCHANGED <<now, jobs, wsClients, conns, published, received, crashed>>

\* handleProcess, job.Total = req.Count; go processImage(...); c.JSON(200, ...)
\* (lines 183-191)
handleProcessDispatch(r) ==
  /\ ~crashed
  /\ tasks[r].pc = "total"
  /\ heap' = [heap EXCEPT ![tasks[r].job].Total = tasks[r].count]
  /\ tasks' = [tasks EXCEPT ![r].pc = "start", ![r].job = 0,
                              ![r].initialImageData = ""]
  /\ UNCHANGED <<now, jobs, wsClients, conns, published, received, crashed, clients>>

\* ---------------------------------------------------------------- run
\* the call broadcastProgress(update) made by task r, returning to pc ret
CallBroadcast(t, update, ret) ==
  [t EXCEPT !.pc = "range", !.update = update, !.ret = ret, !.seen = {}, !.todo = {},
            !.cur = 0]

\* a panic raised in task r: recovered by the deferred function of processImage
\* (line 270), unless it is raised inside that deferred function itself
Panic(r) ==
  IF tasks[r].deferred
  THEN /\ crashed' = TRUE
       /\ UNCHANGED tasks
  ELSE /\ tasks' = [tasks EXCEPT ![r].pc = "recover", ![r].deferred = TRUE]
       /\ UNCHANGED crashed

\* processImage: job := jobs[jobID] (line 267)
processStart(r) ==
  /\ ~crashed
  /\ tasks[r].pc = "start"
  /\ tasks' = [tasks EXCEPT ![r].pc = "decode", ![r].job = Lookup(tasks[r].jobID)]
  /\ UNCHANGED <<now, jobs, heap, wsClients, conns, published, received, crashed, clients>>

\* image.Decode, then either the error branch's job.Status = "error" (line 285)
\* or NewModel and job.Score = model.Score (line 298)
processDecode(r) ==
  /\ ~crashed
  /\ tasks[r].pc = "decode"
  /\ LET ptr == tasks[r].job IN
     IF ~Decodable(heap[ptr].InputData)
     THEN /\ heap' = [heap EXCEPT ![ptr].Status = "error"]
          /\ tasks' = [tasks EXCEPT ![r].pc = "decodeErr"]
     ELSE /\ heap' = [heap EXCEPT ![ptr].Score = InitialScore]
          /\ tasks' = [tasks EXCEPT ![r].pc = "loop", ![r].score = InitialScore]
  /\ UNCHANGED <<now, jobs, wsClients, conns, published, received, crashed, clients>>

\* job.Error = "Failed to load image"; return (lines 286-287)
processDecodeErr(r) ==
  /\ ~crashed
  /\ tasks[r].pc = "decodeErr"
  /\ heap' = [heap EXCEPT ![tasks[r].job].Error = "Failed to load image"]
  /\ tasks' = [tasks EXCEPT ![r] = DoneTask]
  /\ UNCHANGED <<now, jobs, wsClients, conns, published, received, crashed, clients>>

\* a step that records two shapes for one call of the optimizer
processStepSkips(r) ==
  /\ ~crashed
  /\ tasks[r].pc = "loop"
  /\ tasks[r].i < tasks[r].count
  /\ tasks' = [tasks EXCEPT ![r].pc = "score", ![r].score = StepScore(tasks[r].score)]
  /\ heap' = [heap EXCEPT ![tasks[r].job].Progress = tasks[r].i + 2]
  /\ UNCHANGED <<now, jobs, wsClients, conns, published, received, crashed, clients>>

\* i < count: model.Step(...); job.Progress = i + 1 (lines 301-306)
processStep(r) ==
  /\ ~crashed
  /\ tasks[r].pc = "loop"
  /\ tasks[r].i < tasks[r].count
  /\ tasks' = [tasks EXCEPT ![r].pc = "score", ![r].score = StepScore(tasks[r].score)]
  /\ heap' = [heap EXCEPT ![tasks[r].job].Progress = tasks[r].i + 1]
  /\ UNCHANGED <<now, jobs, wsClients, conns, published, received, crashed, clients>>

\* the sampling test without its final-step clause
SampledNoFinalStep(i, count) == (i + 1) % 5 = 0

\* the sampling test of line 310
Sampled(i, count) == (i + 1) % 5 = 0 \/ i + 1 = count

\* job.Score = model.Score, then the sampled frame: encode the canvas (an encode
\* error leaves imageData empty) and call broadcastProgress (lines 307-330)
processScore(r) ==
  /\ ~crashed
  /\ tasks[r].pc = "score"
  /\ LET t == tasks[r]
         ptr == t.job
         imageData == Base64(JpegEncode(heap[ptr].InputData, t.i + 1, 70))
         update == ProgressUpdate(t.jobID, t.i + 1, t.count, t.score, FALSE, "", imageData)
     IN /\ heap' = [heap EXCEPT ![ptr].Score = t.score]
        /\ IF Sampled(t.i, t.count)
           THEN /\ tasks' = [tasks EXCEPT ![r] = CallBroadcast([t EXCEPT !.i = t.i + 1],
                                                              update, "loop")]
                /\ published' = published \cup {Sent(r, update)}
           ELSE /\ tasks' = [tasks EXCEPT ![r].pc = "loop", ![r].i = t.i + 1]
                /\ UNCHANGED published
  /\ UNCHANGED <<now, jobs, wsClients, conns, received, crashed, clients>>

\* after the loop: the final jpeg.Encode, then either job.Status = "error"
\* (line 340) or job.ResultData = buf.Bytes() (line 345)
processEncode(r) ==
  /\ ~crashed
  /\ tasks[r].pc = "loop"
  /\ ~(tasks[r].i < tasks[r].count)
  /\ LET ptr == tasks[r].job IN
     IF Encodable(heap[ptr].InputData)
     THEN /\ heap' = [heap EXCEPT ![ptr].ResultData =
                                     JpegEncode(heap[ptr].InputData, tasks[r].i, 90)]
          /\ tasks' = [tasks EXCEPT ![r].pc = "completed"]
     ELSE /\ heap' = [heap EXCEPT ![ptr].Status = "error"]
          /\ tasks' = [tasks EXCEPT ![r].pc = "encodeErr"]
  /\ UNCHANGED <<now, jobs, wsClients, conns, published, received, crashed, clients>>

\* job.Error = "Failed to encode result"; return (lines 341-342)
processEncodeErr(r) ==
  /\ ~crashed
  /\ tasks[r].pc = "encodeErr"
  /\ heap' = [heap EXCEPT ![tasks[r].job].Error = "Failed to encode result"]
  /\ tasks' = [tasks EXCEPT ![r] = DoneTask]
  /\ UNCHANGED <<now, jobs, wsClients, conns, published, received, crashed, clients>>

\* processImage without its final broadcast: the run sets the status and returns
processCompletedNoFrame(r) ==
  /\ ~crashed
  /\ tasks[r].pc = "completed"
  /\ heap' = [heap EXCEPT ![tasks[r].job].Status = "completed"]
  /\ tasks' = [tasks EXCEPT ![r] = DoneTask]
  /\ UNCHANGED <<now, jobs, wsClients, conns, published, received, crashed, clients>>

\* job.Status = "completed" and the terminal frame, which carries job.Score and
\* the bytes of the final encode (lines 346-357)
processCompleted(r) ==
  /\ ~crashed
  /\ tasks[r].pc = "completed"
  /\ LET t == tasks[r]
         ptr == t.job
         buf == JpegEncode(heap[ptr].InputData, t.i, 90)
         update == ProgressUpdate(t.jobID, t.count, t.count, heap[ptr].Score, TRUE, "",
                                  Base64(buf))
     IN /\ heap' = [heap EXCEPT ![ptr].Status = "completed"]
        /\ tasks' = [tasks EXCEPT ![r] = CallBroadcast(t, update, "done")]
        /\ published' = published \cup {Sent(r, update)}
  /\ UNCHANGED <<now, jobs, wsClients, conns, received, crashed, clients>>

\* the deferred function after a panic: job.Status = "error" (line 271)
processRecover(r) ==
  /\ ~crashed
  /\ tasks[r].pc = "recover"
  /\ heap' = [heap EXCEPT ![tasks[r].job].Status = "error"]
  /\ tasks' = [tasks EXCEPT ![r].pc = "recoverErr"]
  /\ UNCHANGED <<now, jobs, wsClients, conns, published, received, crashed, clients>>

\* fmt.Sprintf("Processing failed: %v", r) of the panic value
FailureReason == "Processing failed: concurrent write to websocket connection"

\* job.Error = ...; broadcastProgress of the failure frame (lines 272-277)
processRecoverErr(r) ==
  /\ ~crashed
  /\ tasks[r].pc = "recoverErr"
  /\ LET t == tasks[r]
         update == ProgressUpdate(t.jobID, 0, 0, 0, TRUE, FailureReason, "")
     IN /\ heap' = [heap EXCEPT ![t.job].Error = FailureReason]
        /\ tasks' = [tasks EXCEPT ![r] = CallBroadcast(t, update, "done")]
        /\ published' = published \cup {Sent(r, update)}
  /\ UNCHANGED <<now, jobs, wsClients, conns, received, crashed, clients>>

\* ---------------------------------------------------------------- hub
\* handleWebSocket with a replay: the new connection is sent every frame
\* published so far
handleWebSocketReplay(c) ==
  /\ ~crashed
  /\ conns[c].state = "unborn"
  /\ \A d \in Conns : d < c => conns[d].state # "unborn"
  /\ conns' = [conns EXCEPT ![c] = [state |-> "open", peer |-> "reading",
                                    handler |-> TRUE, isWriting |-> FALSE]]
  /\ wsClients' = wsClients \cup {c}
  /\ received' = [received EXCEPT ![c] = published]
  /\ UNCHANGED <<now, jobs, heap, tasks, published, crashed, clients>>

\* handleWebSocket: upgrader.Upgrade and wsClients[conn] = true (lines 237-244);
\* connections are numbered in the order they are upgraded
handleWebSocket(c) ==
  /\ ~crashed
  /\ conns[c].state = "unborn"
  /\ \A d \in Conns : d < c => conns[d].state # "unborn"
  /\ conns' = [conns EXCEPT ![c] = [state |-> "open", peer |-> "reading",
                                    handler |-> TRUE, isWriting |-> FALSE]]
  /\ wsClients' = wsClients \cup {c}
  /\ UNCHANGED <<now, jobs, heap, tasks, published, received, crashed, clients>>

\* handleWebSocket: conn.ReadMessage fails once the peer is gone or the
\* connection was closed; the deferred delete(wsClients, conn) and conn.Close()
\* run (lines 242-253)
handleWebSocketExit(c) ==
  /\ ~crashed
  /\ conns[c].handler
  /\ conns[c].peer = "gone" \/ conns[c].state = "closed"
  /\ wsClients' = wsClients \ {c}
  /\ conns' = [conns EXCEPT ![c].state = "closed", ![c].handler = FALSE]
  /\ UNCHANGED <<now, jobs, heap, tasks, published, received, crashed, clients>>

\* the observer closes its end or the network drops the connection
peerClose(c) ==
  /\ ~crashed
  /\ conns[c].peer \in {"reading", "stalled"}
  /\ conns' = [conns EXCEPT ![c].peer = "gone"]
  /\ UNCHANGED <<now, jobs, heap, tasks, wsClients, published, received, crashed, clients>>

\* the observer stops reading its socket: once the buffers are full a write
\* without deadline (none is set on conn) waits for it
peerStall(c) ==
  /\ ~crashed
  /\ conns[c].peer = "reading"
  /\ conns' = [conns EXCEPT ![c].peer = "stalled"]
  /\ UNCHANGED <<now, jobs, heap, tasks, wsClients, published, received, crashed, clients>>

\* the observer reads again
peerResume(c) ==
  /\ ~crashed
  /\ conns[c].peer = "stalled"
  /\ conns' = [conns EXCEPT ![c].peer = "reading"]
  /\ UNCHANGED <<now, jobs, heap, tasks, wsClients, published, received, crashed, clients>>

\* a task is inside broadcastProgress
Broadcasting(t) == t.pc \in {"range", "next", "write"}

\* broadcastProgress: the range over wsClients steps to its next connection and
\* conn.WriteJSON starts (lines 257-258). An entry added to the map during the
\* range may be produced or skipped. WriteJSON keeps a flag on the connection
\* while it writes and panics when it finds the flag of another goroutine's
\* write; the flag is read without synchronisation, so a concurrent write is
\* detected here (detect) or goes on unnoticed.
broadcastNext(r, c, detect) ==
  /\ ~crashed
  /\ tasks[r].pc \in {"range", "next"}
  /\ c \in wsClients \ tasks[r].seen
  /\ IF conns[c].isWriting /\ detect
     THEN /\ Panic(r)
          /\ UNCHANGED conns
     ELSE /\ conns[c].isWriting \/ detect
          /\ tasks' = [tasks EXCEPT ![r].pc = "write", ![r].cur = c,
                                    ![r].seen = tasks[r].seen \cup {c},
                                    ![r].todo = IF tasks[r].pc = "range"
                                                THEN wsClients ELSE tasks[r].todo]
          /\ conns' = [conns EXCEPT ![c].isWriting = TRUE]
          /\ UNCHANGED crashed
  /\ UNCHANGED <<now, jobs, heap, wsClients, published, received, clients>>

\* broadcastProgress: the range is exhausted and the function returns; the run
\* continues at its loop, or ends (line 263)
broadcastReturn(r) ==
  /\ ~crashed
  /\ tasks[r].pc \in {"range", "next"}
  /\ LET todo == IF tasks[r].pc = "range" THEN wsClients ELSE tasks[r].todo
     IN (todo \cap wsClients) \ tasks[r].seen = {}
  /\ tasks' = [tasks EXCEPT ![r] =
                 IF tasks[r].ret = "done"
                 THEN DoneTask
                 ELSE [tasks[r] EXCEPT !.pc = tasks[r].ret, !.update = NoFrame,
                                       !.seen = {}, !.todo = {}, !.cur = 0]]
  /\ UNCHANGED <<now, jobs, heap, wsClients, conns, published, received, crashed, clients>>

\* conn.WriteJSON returns (lines 258-262). It waits while the peer holds the
\* connection open without reading (no write deadline is set). It panics when
\* another write has cleared the flag meanwhile. Otherwise the frame was written
\* (a peer that is gone never reads it), or the write failed and the connection
\* is closed and deleted from wsClients.
broadcastWrite(r, ok) ==
  /\ ~crashed
  /\ tasks[r].pc = "write"
  /\ LET c == tasks[r].cur IN
     /\ ~(conns[c].state = "open" /\ conns[c].peer = "stalled")
     /\ IF ~conns[c].isWriting
        THEN /\ ok
             /\ Panic(r)
             /\ UNCHANGED <<conns, wsClients, received>>
        ELSE /\ ok => conns[c].state = "open"
             /\ ~ok => conns[c].state = "closed" \/ conns[c].peer = "gone"
             /\ tasks' = [tasks EXCEPT ![r].pc = "next", ![r].cur = 0]
             /\ UNCHANGED crashed
             /\ IF ok
                THEN /\ received' = [received EXCEPT ![c] =
                                       IF conns[c].peer = "reading"
                                       THEN @ \cup {Sent(r, tasks[r].update)} ELSE @]
                     /\ conns' = [conns EXCEPT ![c].isWriting = FALSE]
                     /\ UNCHANGED wsClients
                ELSE /\ conns' = [conns EXCEPT ![c].isWriting = FALSE,
                                               ![c].state = "closed"]
                     /\ wsClients' = wsClients \ {c}
                     /\ UNCHANGED received
  /\ UNCHANGED <<now, jobs, heap, published, clients>>

\* ---------------------------------------------------------------- web client
\* App.tsx, handleFileSelect (lines 102-108): a file is chosen
handleFileSelect(c) ==
  /\ ~crashed
  /\ clients[c].awaiting = NoFrame
  /\ clients[c].appState # "processing"
  /\ clients' = [clients EXCEPT ![c].appState = "uploaded", ![c].resultUrl = <<>>,
                                 ![c].error = "", ![c].progress = NoFrame]
  /\ UNCHANGED <<now, jobs, heap, tasks, wsClients, conns, published, received, crashed>>

\* ws.onmessage (lines 66-79) for a frame the connection has received and the
\* client has not handled yet: the frame becomes the progress shown whatever
\* its jobId is; a terminal frame sets the download URL of the frame's job and
\* the state completed, or the error and the state uploaded
onmessage(c, m) ==
  /\ ~crashed
  /\ m \in received[c] \ clients[c].handled
  /\ LET update == m.frame
         cl == [clients[c] EXCEPT !.handled = @ \cup {m}, !.progress = update]
     IN clients' = [clients EXCEPT ![c] =
          IF ~update.completed THEN cl
          ELSE IF update.error = ""
          THEN [cl EXCEPT !.resultUrl = <<"/api/download", update.jobId>>,
                          !.appState = "completed"]
          ELSE [cl EXCEPT !.error = update.error, !.appState = "uploaded"]]
  /\ UNCHANGED <<now, jobs, heap, tasks, wsClients, conns, published, received, crashed>>

\* startProcessing up to the fetch of /api/process (lines 171-192), for a
\* client whose socket is open, together with the handler that takes the
\* request; the button is disabled while appState is processing (line 410)
startProcessing(c, r, id, p) ==
  /\ clients[c].appState \in {"uploaded", "completed"}
  /\ clients[c].awaiting = NoFrame
  /\ conns[c].state = "open"
  /\ ProcessResponse(id).code = 200
  /\ handleProcess(r, id, p)
  /\ clients' = [clients EXCEPT ![c].progress = NoFrame, ![c].resultUrl = <<>>,
                                 ![c].jobId = id,
                                 ![c].awaiting =
                                   ProgressUpdate(id, 0, p.count, 0, FALSE, "",
                                                  ProcessResponse(id).body)]

\* startProcessing once the answer has arrived (lines 194-209)
startProcessingResponse(c) ==
  /\ ~crashed
  /\ clients[c].awaiting # NoFrame
  /\ clients' = [clients EXCEPT ![c].progress = clients[c].awaiting,
                                 ![c].appState = "processing",
                                 ![c].awaiting = NoFrame]
  /\ UNCHANGED <<now, jobs, heap, tasks, wsClients, conns, published, received, crashed>>

\* wsClients is a plain map that the websocket handlers and every broadcast
\* access without a lock (lines 234, 242, 244, 257, 261). The goroutines with
\* an insert or a delete of the map ahead of them, among the handlers of the
\* connections cs and the broadcasts: a handler about to register its
\* connection or to run its deferred delete, a broadcast whose write fails
PendingMapWrites(cs) ==
  {<<"handler", c>> : c \in {d \in cs :
      \/ conns[d].state = "unborn" /\ \A e \in Conns : e < d => conns[e].state # "unborn"
      \/ conns[d].handler /\ (conns[d].peer = "gone" \/ conns[d].state = "closed")}}
  \cup
  {<<"run", r>> : r \in {q \in Tasks :
      /\ tasks[q].pc = "write"
      /\ conns[tasks[q].cur].isWriting
      /\ conns[tasks[q].cur].state = "closed" \/ conns[tasks[q].cur].peer = "gone"}}

\* the goroutines with a step of a range over the non-empty map ahead of them
PendingMapReads ==
  {<<"run", r>> : r \in {q \in Tasks : tasks[q].pc \in {"range", "next"} /\ wsClients # {}}}

\* a write of the map at the same time as another goroutine's write or range
\* step: the runtime detects it ("concurrent map writes", "concurrent map
\* iteration and map write") and ends the process; no recover catches it
wsClientsRace(cs) ==
  /\ ~crashed
  /\ \E w \in PendingMapWrites(cs) :
       \E a \in PendingMapWrites(cs) \cup PendingMapReads : a # w
  /\ crashed' = TRUE
  /\ UNCHANGED <<now, jobs, heap, tasks, wsClients, conns, published, received, clients>>

\* ---------------------------------------------------------------- system
\* the HTTP requests that only read, or that are refused before they write
Requests ==
  \/ handleUploadNoFile
  \/ handleUploadReadError
  \/ \E id \in ReqIDs : handleStatus(id)
  \/ \E id \in ReqIDs : handleDownload(id)
  \/ handleProcessBadJSON
  \/ handleNoRoute

\* one step of the goroutine of task r outside broadcastProgress
RunStep(r) ==
  \/ handleProcessDispatch(r)
  \/ processStart(r)
  \/ processDecode(r)
  \/ processStep(r)
  \/ processScore(r)
  \/ processEncode(r)
  \/ processCompleted(r)

\* the second statement of the two error branches of processImage; they are
\* taken only by a run that finds other bytes than handleProcess decoded
FaultStep(r) ==
  \/ processDecodeErr(r)
  \/ processEncodeErr(r)

\* one step of task r inside broadcastProgress or its deferred recovery
HubStep(r) ==
  \/ processRecover(r)
  \/ processRecoverErr(r)
  \/ \E c \in Conns, detect \in BOOLEAN : broadcastNext(r, c, detect)
  \/ \E ok \in BOOLEAN : broadcastWrite(r, ok)

\* the observers and their connections, among the connections cs
Observers(cs) ==
  \/ \E c \in cs : handleWebSocket(c)
  \/ \E c \in cs : handleWebSocketExit(c)
  \/ \E c \in cs : peerClose(c)
  \/ \E c \in cs : peerStall(c)
  \/ \E c \in cs : peerResume(c)
  \/ wsClientsRace(cs)

\* the whole backend
Next ==
  \/ Requests
  \/ \E data \in Files, t \in JobIDs : handleUpload(data, t)
  \/ \E t \in JobIDs : jobsRace(t)
  \/ \E r \in Tasks, id \in ReqIDs, p \in Params :
       handleProcess(r, id, p) /\ UNCHANGED clients
  \/ \E r \in Tasks : RunStep(r) \/ FaultStep(r) \/ broadcastReturn(r) \/ HubStep(r)
  \/ Observers(Conns)

Spec == Init /\ [][Next]_vars

\* the registry, the handlers and the runs while no observer is connected
NextJobs ==
  \/ Requests
  \/ \E data \in Files, t \in JobIDs : handleUpload(data, t)
  \/ \E t \in JobIDs : jobsRace(t)
  \/ \E r \in Tasks, id \in ReqIDs, p \in Params :
       handleProcess(r, id, p) /\ UNCHANGED clients
  \/ \E r \in Tasks : RunStep(r) \/ FaultStep(r) \/ broadcastReturn(r)

SpecJobs == Init /\ [][NextJobs]_vars

\* the runs of one uploaded job and the hub with its observers (with one Job
\* object no run takes an error branch)
NextHub ==
  \/ Requests
  \/ \E data \in Files : heap = <<>> /\ handleUpload(data, now)
  \/ heap = <<>> /\ jobsRace(now)
  \/ \E r \in Tasks, id \in ReqIDs, p \in Params :
       handleProcess(r, id, p) /\ UNCHANGED clients
  \/ \E r \in Tasks : RunStep(r) \/ broadcastReturn(r) \/ HubStep(r)
  \/ Observers(1..MaxHubConns)

SpecHub == Init /\ [][NextHub]_vars

\* the process requests within the parameter ranges of the design
ImageParams == {p \in Params : p.count > 0 /\ p.mode \in 0..8 /\ p.alpha \in 0..255}

\* process requests for more shapes than one sampling period
LongParams ==
  { [count |-> 7,  mode |-> 1, alpha |-> 128],
    [count |-> 10, mode |-> 1, alpha |-> 128] }

\* one image, one run of it, short or long, and the hub with all its observers
NextOneRun ==
  \/ \E t \in JobIDs : heap = <<>> /\ handleUpload("png", t)
  \/ \E t \in JobIDs : heap = <<>> /\ jobsRace(t)
  \/ \E id \in JobIDs, p \in ImageParams \cup LongParams :
       handleProcess(1, id, p) /\ UNCHANGED clients
  \/ RunStep(1) \/ broadcastReturn(1)
  \/ \E c \in Conns, detect \in BOOLEAN : broadcastNext(1, c, detect)
  \/ \E ok \in BOOLEAN : broadcastWrite(1, ok)
  \/ Observers(Conns)

SpecOneRun == Init /\ [][NextOneRun]_vars

\* clients that keep to the design: images uploaded in different seconds, each
\* job processed once with parameters in range, observers that stay connected
\* and read
NextTwoJobs ==
  \/ \E t \in JobIDs : jobs[t] = 0 /\ handleUpload("png", t)
  \/ \E t \in JobIDs : jobs[t] = 0 /\ jobsRace(t)
  \/ \E r \in Tasks, id \in JobIDs, p \in ImageParams :
       /\ Lookup(id) # 0 /\ heap[Lookup(id)].Status = "uploaded"
       /\ handleProcess(r, id, p) /\ UNCHANGED clients
  \/ \E r \in Tasks : RunStep(r) \/ broadcastReturn(r) \/ HubStep(r)
  \/ \E c \in Conns : handleWebSocket(c)
  \/ wsClientsRace(Conns)

SpecTwoJobs == Init /\ [][NextTwoJobs]_vars

\* a web client behind connection 1 and another user of the API: images
\* uploaded in different seconds, each job processed once with one shape, by
\* the client or by the other user; the client handles each frame before the
\* next one reaches it
ClientParams == {p \in ImageParams : p.count = 1}

NextClient ==
  \/ \E t \in JobIDs : jobs[t] = 0 /\ handleUpload("png", t)
  \/ \E c \in 1..MaxHubConns : handleWebSocket(c)
  \/ \E c \in 1..MaxHubConns : handleFileSelect(c)
  \/ \E c \in 1..MaxHubConns, r \in Tasks, id \in JobIDs, p \in ClientParams :
       /\ Lookup(id) # 0 /\ heap[Lookup(id)].Status = "uploaded"
       /\ startProcessing(c, r, id, p)
  \/ \E c \in 1..MaxHubConns : startProcessingResponse(c)
  \/ \E r \in Tasks, id \in JobIDs, p \in ClientParams :
       /\ Lookup(id) # 0 /\ heap[Lookup(id)].Status = "uploaded"
       /\ handleProcess(r, id, p) /\ UNCHANGED clients
  \/ \E r \in Tasks : RunStep(r) \/ broadcastReturn(r)
  \/ \E r \in Tasks : processRecover(r) \/ processRecoverErr(r)
  \/ \E r \in Tasks, c \in Conns, detect \in BOOLEAN : broadcastNext(r, c, detect)
  \/ \E r \in Tasks, ok \in BOOLEAN :
       /\ \A c \in Conns : received[c] \subseteq clients[c].handled
       /\ broadcastWrite(r, ok)
  \/ \E c \in 1..MaxHubConns : \E m \in received[c] : onmessage(c, m)

SpecClient == Init /\ [][NextClient]_vars

\* goroutines are scheduled fairly, and a write that waits for its peer returns
\* once the peer reads or is gone, however briefly; nothing obliges a client to
\* send a request and nothing obliges an observer to read, resume or disconnect
Fairness ==
  \A r \in Tasks :
    /\ WF_vars(RunStep(r) \/ FaultStep(r) \/ broadcastReturn(r) \/ HubStep(r))
    /\ SF_vars(\E ok \in BOOLEAN : broadcastWrite(r, ok))

SpecHubFair == SpecHub /\ Fairness

\* 
\* ================================================================ claims
Terminal == {"completed", "error"}

\* the ids the registry holds a Job for
Created == {id \in JobIDs : jobs[id] # 0}

\* the Job the registry holds for id
JobOf(id) == heap[jobs[id]]

\* a processImage goroutine between its dispatch and its return
Running(r) == tasks[r].pc \notin {"idle", "total", "done"}

\* the parameter ranges of the design: a positive count, a shape type 0..8,
\* an alpha 0..255
ValidParameters(count, mode, alpha) ==
  count > 0 /\ mode \in 0..8 /\ alpha \in 0..255

\* C1: a Job whose status is completed or error keeps that status in every
\* later step, whatever request or run step the step is.
C1_StatusMonotonic ==
  [][\A id \in Created :
       JobOf(id).Status \in Terminal => heap'[jobs[id]].Status = JobOf(id).Status]_vars

\* C2: no two processImage runs of the same job id are both between dispatch
\* and return.
C2_OneRunPerJob ==
  \A r1, r2 \in Tasks :
    (r1 # r2 /\ Running(r1) /\ Running(r2)) => tasks[r1].jobID # tasks[r2].jobID

\* C3: a status request observes 0 <= progress <= total for every job, in
\* every state.
C3_ProgressWithinTotal ==
  \A id \in Created :
    LET body == StatusResponse(id).body
    IN 0 <= body.progress /\ body.progress <= body.total

\* C4: a job's result bytes are non-empty exactly when its status is
\* completed, in every state.
C4_ResultIffCompleted ==
  \A id \in Created : (JobOf(id).ResultData # NoBytes) <=> (JobOf(id).Status = "completed")

\* C5: a process request whose count, mode or alpha is out of range is refused
\* before dispatch: the step that handles it changes no job, starts no task
\* and publishes nothing, and no run ever steps with such values.
C5_InvalidParametersRejected ==
  [][/\ \A r \in Tasks, id \in ReqIDs, p \in Params :
          (~ValidParameters(p.count, p.mode, p.alpha) /\ handleProcess(r, id, p))
            => UNCHANGED <<jobs, heap, tasks, published>>
     /\ \A r \in Tasks :
          processStep(r) => ValidParameters(tasks[r].count, tasks[r].mode, tasks[r].alpha)
    ]_vars

\* the frames with completed = true that run r has published
TerminalFrames(r, pub) == {m \in pub : m.run = r /\ m.frame.completed}

\* the step with which run r returns after a fault: out of an error branch, or
\* out of the broadcast of its deferred recovery
ReturnsFromFault(r) ==
  /\ tasks'[r].pc = "done"
  /\ \/ tasks[r].pc \in {"decodeErr", "encodeErr"}
     \/ tasks[r].deferred /\ Broadcasting(tasks[r])

\* C6: when a run returns after a fault, its job has status error and a
\* non-empty failure reason, and the run has published exactly one terminal
\* frame, for its job, carrying that reason.
C6_FaultReported ==
  [][\A r \in Tasks :
       ReturnsFromFault(r) =>
         LET job == heap'[tasks[r].job]
         IN /\ job.Status = "error"
            /\ job.Error # ""
            /\ Cardinality(TerminalFrames(r, published')) = 1
            /\ \A m \in TerminalFrames(r, published') :
                 m.frame.jobId = tasks[r].jobID /\ m.frame.error = job.Error]_vars

\* C7: once an observer holds a terminal frame without error for a job, a
\* download request for that job answers 200 with non-empty bytes.
C7_TerminalFrameThenDownload ==
  \A c \in Conns : \A m \in received[c] :
    (m.frame.completed /\ m.frame.error = "") =>
      LET d == DownloadResponse(m.frame.jobId)
      IN d.code = 200 /\ d.body # NoBytes

\* C8: a job for which a run was dispatched eventually has status completed
\* or error.
C8_RunTerminates ==
  \A id \in JobIDs :
    (\E r \in Tasks : tasks[r].pc = "start" /\ tasks[r].jobID = id)
      ~> (jobs[id] # 0 /\ JobOf(id).Status \in Terminal)

\* C9: for an id the registry does not hold, status, download and process
\* answer 404, and the step that handles such a request changes nothing.
C9_UnknownIdNotFound ==
  [][\A id \in ReqIDs :
       Lookup(id) = 0 =>
         /\ StatusResponse(id).code = 404
         /\ DownloadResponse(id).code = 404
         /\ ProcessResponse(id).code = 404
         /\ (\/ handleStatus(id)
             \/ handleDownload(id)
             \/ \E r \in Tasks, p \in Params : handleProcess(r, id, p))
              => UNCHANGED vars]_vars

\* an id is unknown while jobs exist, a run is under way and frames were sent
C9_Witness ==
  /\ \E id \in JobIDs : Lookup(id) = 0 /\ StatusResponse(id).code = 404
  /\ Created # {}
  /\ \E r \in Tasks : Running(r)
  /\ published # {}

\* C10: download answers 400 for an existing job whose status is not
\* completed, and 200 with exactly the stored result bytes when it is.
C10_DownloadByStatus ==
  \A id \in Created :
    LET d == DownloadResponse(id)
    IN IF JobOf(id).Status = "completed"
       THEN d.code = 200 /\ d.body = JobOf(id).ResultData /\ d.body # NoBytes
       ELSE d.code = 400

\* a completed job is served its bytes while another job, not completed, is
\* refused
C10_Witness ==
  \E id \in Created :
    /\ JobOf(id).Status = "completed"
    /\ DownloadResponse(id).code = 200
    /\ \E id2 \in Created : id2 # id /\ JobOf(id2).Status \in {"uploaded", "processing", "error"}
                            /\ DownloadResponse(id2).code = 400

\* an observer the hub holds, whose connection is open and whose peer reads
Healthy(c) == c \in wsClients /\ conns[c].state = "open" /\ conns[c].peer = "reading"

\* run r is inside a WriteJSON to a connection that is closed or whose peer
\* is gone
DeliveryFailing(r) ==
  /\ tasks[r].pc = "write"
  /\ conns[tasks[r].cur].state = "closed" \/ conns[tasks[r].cur].peer = "gone"

\* C11: a delivery to a closed or broken connection never ends the process; a
\* WriteJSON that fails removes exactly its connection from wsClients and
\* leaves every job as it was; the run goes on with the range and is not
\* failed; and when broadcastProgress returns, every observer the range found
\* that is still healthy holds the frame.
C11_DeliveryFailureIsolated ==
  [][\A r \in Tasks :
       /\ DeliveryFailing(r) => ~crashed'
       /\ broadcastWrite(r, FALSE) =>
            /\ wsClients' = wsClients \ {tasks[r].cur}
            /\ heap' = heap
            /\ tasks'[r].pc = "next" /\ ~tasks'[r].deferred
       /\ broadcastReturn(r) =>
            /\ \A c \in tasks[r].todo :
                 Healthy(c) => Sent(r, tasks[r].update) \in received[c]
            /\ \A ptr \in 1..Len(heap') : heap'[ptr].Status # "error"]_vars

\* the frames of run r that connection c has received
FramesOf(r, rcv, c) == {m \in rcv[c] : m.run = r}

\* C12: a connection holds no frame when it is registered; every frame it
\* receives is written by the run that is publishing that frame at this very
\* step, to this open connection; and a run that has returned delivers
\* nothing more to anyone.
C12_NoReplay ==
  [][\A c \in Conns :
       /\ c \in wsClients' \ wsClients => received'[c] = {}
       /\ \A m \in received'[c] \ received[c] :
            /\ tasks[m.run].pc = "write" /\ tasks[m.run].cur = c
            /\ tasks[m.run].update = m.frame
            /\ c \in wsClients /\ conns[c].state = "open"
       /\ \A r \in Tasks :
            tasks[r].pc = "done" => FramesOf(r, received', c) = FramesOf(r, received, c)]_vars

\* run 1 has published all its frames, the terminal one included, and has
\* returned; a healthy observer holds none of them but holds a frame of run 2
C12_Witness ==
  \E c \in Conns :
    /\ Healthy(c)
    /\ tasks[1].pc = "done"
    /\ \E m \in published : m.run = 1 /\ m.frame.completed /\ m.frame.error = ""
    /\ FramesOf(1, received, c) = {}
    /\ FramesOf(2, received, c) # {}

\* C13: when a run leaves broadcastProgress, by return or by panic, every
\* observer that the range found and that is still healthy holds the frame,
\* whatever job the frame is of.
C13_DeliveredToAll ==
  [][\A r \in Tasks :
       (Broadcasting(tasks[r]) /\ ~Broadcasting(tasks'[r])) =>
         \A c \in tasks[r].todo :
           Healthy(c)' => Sent(r, tasks[r].update) \in received'[c]]_vars

\* C14: the step that ends step n of a run with count N publishes exactly one
\* frame when n is a multiple of 5 or n = N, and none otherwise; that frame is
\* of the run's job and has progress n, total N and completed false; and no
\* other step publishes a frame with completed false.
C14_SamplingPolicy ==
  [][/\ \A r \in Tasks :
          processScore(r) =>
            LET n == tasks[r].i + 1
                N == tasks[r].count
                new == published' \ published
            IN IF n % 5 = 0 \/ n = N
               THEN /\ Cardinality(new) = 1
                    /\ \A m \in new :
                         /\ m.run = r /\ m.frame.jobId = tasks[r].jobID
                         /\ m.frame.progress = n /\ m.frame.total = N
                         /\ ~m.frame.completed
               ELSE new = {}
     /\ \A m \in published' \ published :
          ~m.frame.completed => tasks[m.run].pc = "score"]_vars

\* the non-terminal frames published so far, by their progress
ProgressFrames == {m.frame.progress : m \in {q \in published : ~q.frame.completed}}

\* a run of 7 steps has returned: it has published frames after steps 5 and 7
\* and after no other step
C14_Witness ==
  /\ tasks[1].pc = "done"
  /\ \E id \in Created : JobOf(id).Total = 7 /\ JobOf(id).Status = "completed"
  /\ ProgressFrames = {5, 7}

\* the frames run r has published
FramesBy(r, pub) == {m \in pub : m.run = r}

\* C15 as stated: every frame a run publishes, the terminal one included, has
\* a progress greater than that of every frame the run published before; the
\* first is at most 5; and a run that returns has published a frame with
\* progress N and a terminal frame.
C15_StrictlyIncreasing ==
  [][\A r \in Tasks :
       /\ \A m \in FramesBy(r, published') \ published :
            /\ \A q \in FramesBy(r, published) :
                 q.frame.progress < m.frame.progress /\ ~q.frame.completed
            /\ FramesBy(r, published) = {} => m.frame.progress <= 5
       /\ (tasks[r].pc # "done" /\ tasks'[r].pc = "done") =>
            /\ \E m \in FramesBy(r, published') : m.frame.progress = tasks[r].count
            /\ \E m \in FramesBy(r, published') : m.frame.completed]_vars

\* C15 amended: the frames with completed false that a run publishes have
\* strictly increasing progress, the first at most 5 and the last N; the run
\* then publishes one terminal frame, with completed true and progress N
\* again, and nothing after it.
C15_IncreasingThenTerminal ==
  [][\A r \in Tasks :
       /\ \A m \in FramesBy(r, published') \ published :
            /\ \A q \in FramesBy(r, published) :
                 /\ ~q.frame.completed
                 /\ IF m.frame.completed
                    THEN q.frame.progress <= m.frame.progress
                    ELSE q.frame.progress < m.frame.progress
            /\ FramesBy(r, published) = {} => m.frame.progress <= 5
            /\ m.frame.completed =>
                 /\ m.frame.progress = tasks[r].count
                 /\ \E q \in FramesBy(r, published) : q.frame.progress = tasks[r].count
       /\ (tasks[r].pc # "done" /\ tasks'[r].pc = "done") =>
            Cardinality({m \in FramesBy(r, published') : m.frame.completed}) = 1]_vars

\* a run of 10 steps has returned: it has published frames with progress 5 and
\* 10 and then the terminal frame, with progress 10 again
C15_Witness ==
  /\ tasks[1].pc = "done"
  /\ {m.frame.progress : m \in {q \in FramesBy(1, published) : ~q.frame.completed}} = {5, 10}
  /\ \E m \in FramesBy(1, published) :
       m.frame.completed /\ m.frame.progress = 10 /\ m.frame.error = ""

\* C16: the id a successful upload returns is the id of no job created
\* before, and the upload leaves every existing id with the record it had.
C16_UniqueIds ==
  [][\A data \in Files, t \in JobIDs :
       handleUpload(data, t) =>
         /\ t \notin Created
         /\ \A id \in Created : jobs'[id] = jobs[id] /\ heap'[jobs'[id]] = JobOf(id)]_vars

\* C17: an upload with a file adds exactly one Job, registered under the id
\* it answers with: status uploaded, progress 0, total 0, no result, no
\* failure reason, the uploaded bytes; it leaves the other Jobs, the runs and
\* the frames alone. An upload without a file answers 400 and changes nothing.
C17_UploadCreatesJob ==
  [][/\ \A data \in Files, t \in JobIDs :
          handleUpload(data, t) =>
            /\ UploadResponse(t).code = 200 /\ UploadResponse(t).body.jobId = t
            /\ Len(heap') = Len(heap) + 1
            /\ \A ptr \in 1..Len(heap) : heap'[ptr] = heap[ptr]
            /\ jobs'[t] = Len(heap')
            /\ LET job == heap'[jobs'[t]]
               IN /\ job.ID = t /\ job.Status = "uploaded"
                  /\ job.Progress = 0 /\ job.Total = 0
                  /\ job.ResultData = NoBytes /\ job.Error = ""
                  /\ job.InputData = data
            /\ UNCHANGED <<tasks, published, received>>
     /\ handleUploadNoFile =>
          UploadNoFileResponse.code = 400 /\ UNCHANGED <<jobs, heap, tasks, published>>]_vars

\* a second job has just been uploaded while a run of the first is under way
C17_Witness ==
  /\ Len(heap) = 2
  /\ \E id \in Created : JobOf(id) = NewJob(id, "png") /\ jobs[id] = 2
  /\ \E r \in Tasks : Running(r) /\ tasks[r].job = 1

\* C18: a process request for a job whose bytes image.Decode rejects is
\* answered with a code in 400..499, and the step that handles it changes no
\* job, starts no task and publishes nothing.
C18_InvalidInputRejected ==
  [][\A id \in Created :
       ~Decodable(JobOf(id).InputData) =>
         /\ ProcessResponse(id).code \in 400..499
         /\ \A r \in Tasks, p \in Params :
              handleProcess(r, id, p) => UNCHANGED <<jobs, heap, tasks, published>>]_vars

\* C19: no step makes the score stored on a Job larger than it was (StepScore
\* never returns more than it is given).
C19_ScoreNonIncreasing ==
  [][\A ptr \in 1..Len(heap) : heap'[ptr].Score <= heap[ptr].Score]_vars

\* C20: in every state, a Job with a non-empty failure reason has status
\* error.
C20_ReasonOnlyWhenFailed ==
  \A ptr \in 1..Len(heap) : heap[ptr].Error # "" => heap[ptr].Status = "error"

\* C21: while a run dispatched for a job is under way no step changes the
\* job's total, and every frame a run publishes carries the total its job's
\* record has at that moment.
C21_TotalFixed ==
  [][/\ \A id \in Created :
          (\E r \in Tasks : Running(r) /\ tasks[r].jobID = id) =>
            heap'[jobs[id]].Total = JobOf(id).Total
     /\ \A m \in published' \ published :
          m.frame.total = heap'[tasks[m.run].job].Total]_vars

C23_RunsIsolated ==
  [][\A r \in Tasks :
       /\ (Running(r) /\ tasks'[r] # tasks[r]) =>
            \A ptr \in 1..Len(heap) : ptr # tasks[r].job => heap'[ptr] = heap[ptr]
       /\ (/\ tasks[r].deferred
           /\ \/ \E c \in Conns, detect \in BOOLEAN : broadcastNext(r, c, detect)
              \/ \E ok \in BOOLEAN : broadcastWrite(r, ok))
            => ~crashed']_vars

\* C24: an id the registry holds a Job for is held in every later state, and
\* a status request for it is not answered 404.
C24_NeverDeleted ==
  [][\A id \in Created :
       /\ jobs'[id] \in 1..Len(heap')
       /\ StatusResponse(id)'.code = 200]_vars

\* two jobs uploaded in different seconds are both still registered after a
\* run of the first has returned
C24_Witness ==
  /\ Created = JobIDs
  /\ jobs[1] = 1 /\ jobs[2] = 2
  /\ \E r \in Tasks : tasks[r].pc = "done"
  /\ JobOf(1).Status = "completed"
  /\ StatusResponse(1).code = 200 /\ StatusResponse(2).code = 200

\* C25: in every state of the server a GET /health request is answered 200.
C25_HealthProbe ==
  ~crashed => RouteResponse("GET", "/health", 200).code = 200

\* C26: no step is an insert into the jobs map at the same time as another
\* access of it, and no step is a write of wsClients at the same time as
\* another goroutine's write of it or range over it.
C26_MapsExclusive ==
  [][/\ \A t \in JobIDs : ~jobsRace(t)
     /\ ~wsClientsRace(Conns)]_vars

\* what the client behind a connection displays
Displayed(cl) == <<cl.progress, cl.appState, cl.error, cl.resultUrl>>

\* C27: when a client that has started a job handles a frame whose jobId is
\* not that of its job, its progress, application state, error and download URL stay as
\* they were.
C27_ClientFiltersByJob ==
  [][\A c \in Conns : \A m \in received[c] :
       (onmessage(c, m) /\ clients[c].jobId # 0 /\ m.frame.jobId # clients[c].jobId) =>
         Displayed(clients'[c]) = Displayed(clients[c])]_vars

\* run r has written the terminal status of its job
HasSetTerminal(r) ==
  \/ tasks[r].pc \in {"decodeErr", "encodeErr", "recoverErr", "done"}
  \/ Broadcasting(tasks[r]) /\ tasks[r].ret = "done"

\* C28: a run that has written the terminal status of its job takes no
\* optimizer step; a run that has published a frame with completed true
\* publishes nothing after it (so it has at most one, its last frame); a run
\* that has returned stays returned, and a task starts only with a process
\* request.
C28_RunIsTerminal ==
  [][\A r \in Tasks :
       /\ HasSetTerminal(r) => ~processStep(r)
       /\ TerminalFrames(r, published) # {} =>
            FramesBy(r, published') = FramesBy(r, published)
       /\ tasks[r].pc = "done" => tasks'[r].pc = "done"
       /\ (tasks[r].pc = "idle" /\ tasks'[r].pc # "idle") =>
            \E id \in ReqIDs, p \in Params : handleProcess(r, id, p)]_vars

\* C29: with a single run of total N, a job's progress starts at 0, changes
\* only at an optimizer step of its run, which adds exactly 1 and stays within
\* N, and is N when the run leaves its loop: N calls of the optimizer.
C29_StepsSequential ==
  [][/\ \A ptr \in DOMAIN heap' \ DOMAIN heap : heap'[ptr].Progress = 0
     /\ \A ptr \in DOMAIN heap :
          /\ ptr \in DOMAIN heap'
          /\ IF \E r \in Tasks : processStep(r) /\ tasks[r].job = ptr
                THEN /\ heap'[ptr].Progress = heap[ptr].Progress + 1
                     /\ heap'[ptr].Progress <= heap[ptr].Total
                ELSE heap'[ptr].Progress = heap[ptr].Progress
     /\ \A r \in Tasks :
          (processEncode(r) \/ processEncodeErr(r)) =>
            heap[tasks[r].job].Progress = tasks[r].count]_vars

\* a run of more than one sampling period has returned with all its steps made
C29_Witness ==
  /\ tasks[1].pc = "done"
  /\ \E ptr \in DOMAIN heap :
       /\ heap[ptr].Status = "completed"
       /\ heap[ptr].Total > 5
       /\ heap[ptr].Progress = heap[ptr].Total

\* connection c was deleted from wsClients by a failed delivery and the
\* deferred delete of its handler is still to come
RemovedOnce(c) == c \notin wsClients /\ conns[c].state = "closed" /\ conns[c].handler

\* C30: a connection enters wsClients at its upgrade and at no other step; it
\* leaves at the exit of its handler or at a failed write to it, and then
\* exactly it leaves; a broadcast picks only members and only a write that
\* picked the connection delivers to it; once removed it never returns; and
\* the second removal of a connection leaves the other observers as they are,
\* in the set and served.
C30_MembershipFollowsLifecycle ==
  [][\A c \in Conns :
       /\ handleWebSocket(c) => c \in wsClients'
       /\ c \in wsClients' \ wsClients => handleWebSocket(c)
       /\ c \in wsClients \ wsClients' =>
            \/ handleWebSocketExit(c)
            \/ \E r \in Tasks : tasks[r].cur = c /\ broadcastWrite(r, FALSE)
       /\ (\/ handleWebSocketExit(c)
           \/ \E r \in Tasks : tasks[r].cur = c /\ broadcastWrite(r, FALSE)) =>
            wsClients' = wsClients \ {c}
       /\ \A r \in Tasks : (tasks'[r].cur = c /\ tasks[r].cur # c) => c \in wsClients
       /\ received'[c] # received[c] => \E r \in Tasks : tasks[r].cur = c
       /\ (c \notin wsClients /\ conns[c].state # "unborn") => c \notin wsClients'
       /\ (RemovedOnce(c) /\ wsClients # {} /\ ~crashed) => ~crashed']_vars

\* C31: no two tasks are inside a WriteJSON to the same connection.
C31_WritesSerialized ==
  \A r, q \in Tasks :
    (r # q /\ tasks[r].pc = "write" /\ tasks[q].pc = "write") =>
      tasks[r].cur # tasks[q].cur

\* the client behind connection c shows the result of the run it started
ShowsResult(cl) ==
  /\ cl.jobId # 0
  /\ cl.appState = "completed"
  /\ cl.resultUrl = <<"/api/download", cl.jobId>>

\* C32: a client that shows the result of the run it started keeps showing it
\* until the user selects a file or starts another run, whatever the order of
\* the process response and the frames of the run; frames of other jobs are
\* left aside here.
C32_CompletedStays ==
  [][\A c \in Conns :
       (/\ ShowsResult(clients[c])
        /\ ~handleFileSelect(c)
        /\ ~\E r \in Tasks, id \in JobIDs, p \in Params : startProcessing(c, r, id, p)
        /\ ~\E m \in received[c] :
              m.frame.jobId # clients[c].jobId /\ onmessage(c, m)) =>
         ShowsResult(clients'[c])]_vars
====
